---- MODULE Spec2Model ----
(***************************************************************************)
(* Social graph, feed composition and notification fan-out of bailanysta.  *)
(* The tables of 0001_init.sql are the state; every service method is an   *)
(* action (or a chain of actions where the method issues several SQL       *)
(* statements that other requests can interleave with).                    *)
(***************************************************************************)
EXTENDS Integers, FiniteSets, Sequences, TLC

\* ---------------------------------------------------------------- bounds
NumUsers == 3
NumProcs == 2
MaxRequests == 3
MaxText == 4

Users == 1..NumUsers
Procs == 1..NumProcs
NULL == 0

\* ids a request can name: every id handed out so far and one that is unknown
Ids == 1..(MaxRequests + 1)

VARIABLES
    follows,        \* follows table: multiplicity of each (follower_id, followee_id) row
    posts,          \* posts table: set of [id, author_id]
    likes,          \* likes table: multiplicity of each (user_id, post_id) row
    comments,       \* comments table: set of [id, post_id, author_id]
    notifications,  \* notifications table: set of rows
    nextPost, nextComment, nextNotif,   \* id generators
    nreq,           \* requests started so far; also the reading of now()
    pc, loc,        \* per request slot: position and local variables
    last            \* the step just taken and its outcome

vars == <<follows, posts, likes, comments, notifications,
          nextPost, nextComment, nextNotif, nreq, pc, loc, last>>

tables == <<follows, posts, likes, comments, notifications>>

NoLoc == [u |-> NULL, v |-> NULL, post |-> NULL,
          followerIDs |-> {}, todo |-> {}, att |-> <<>>, failed |-> {}]

NoStep == [op |-> "none", proc |-> NULL, u |-> NULL, x |-> NULL, out |-> "none",
           nfail |-> FALSE]

\* nfail: the notification insert of the step hit a storage error
Step(op, p, u, x, out) ==
    [op |-> op, proc |-> p, u |-> u, x |-> x, out |-> out, nfail |-> FALSE]

\* ------------------------------------------------------------- helpers
PostIDs == {q.id : q \in posts}

PostByID(id) == CHOOSE q \in posts : q.id = id

\* CreateNotification: INSERT INTO notifications ... RETURNING; read_at
\* is not in the column list, so it starts NULL.
NewNotification_ToActor(userID, type, entityID, actor) ==
    [id |-> nextNotif, user_id |-> actor, type |-> type,
     entity_id |-> entityID, actor |-> actor, read_at |-> NULL]

NewNotification(userID, type, entityID, actor) ==
    [id |-> nextNotif, user_id |-> userID, type |-> type,
     entity_id |-> entityID, actor |-> actor, read_at |-> NULL]

\* the insert of CreateNotification; fail is a storage error of that insert
CreateNotification(fail, userID, type, entityID, actor) ==
    IF fail
    THEN /\ UNCHANGED <<notifications, nextNotif>>
    ELSE /\ notifications' = notifications \cup {NewNotification(userID, type, entityID, actor)}
         /\ nextNotif' = nextNotif + 1

ReturnsOnError_Never(err) == FALSE

\* if err != nil { return ... } after the primary write: the statements
\* below it, the Notify* call among them, are not run
ReturnsOnError(err) == err

RollbackAfterNotify_OnError(notifyErr) == notifyErr

\* the primary write is committed when Notify* runs (a single autocommit
\* statement, or tx.Commit before NotifyNewPost): its error rolls back nothing
RollbackAfterNotify(notifyErr) == FALSE

\* ---------------------------------------------------------------- Init
Init ==
    /\ follows = [e \in Users \X Users |-> 0]
    /\ posts = {}
    /\ likes = [e \in Users \X Ids |-> 0]
    /\ comments = {}
    /\ notifications = {}
    /\ nextPost = 1
    /\ nextComment = 1
    /\ nextNotif = 1
    /\ nreq = 0
    /\ pc = [p \in Procs |-> "idle"]
    /\ loc = [p \in Procs |-> NoLoc]
    /\ last = NoStep

\* a new request arrives
Begin ==
    /\ nreq < MaxRequests
    /\ nreq' = nreq + 1

\* ------------------------------------------------- SocialService.FollowUser
IsSelfFollow_Never(followerID, followeeID) == FALSE

IsSelfFollow(followerID, followeeID) == followerID = followeeID

FollowCount_Zero(followerID, followeeID) == 0

\* SELECT COUNT(*) FROM follows WHERE follower_id = $1 AND followee_id = $2
FollowCount(followerID, followeeID) == follows[<<followerID, followeeID>>]

FollowsPKViolation_None(followerID, followeeID) == FALSE

\* PRIMARY KEY (follower_id, followee_id): the plain INSERT is rejected
FollowsPKViolation(followerID, followeeID) == follows[<<followerID, followeeID>>] > 0

FollowUserCheck(p, u, v) ==
    /\ pc[p] = "idle"
    /\ Begin
    /\ IF IsSelfFollow(u, v)
       THEN /\ last' = Step("FollowUser", p, u, v, "self_follow")
            /\ UNCHANGED <<pc, loc>>
       ELSE IF FollowCount(u, v) > 0
       THEN /\ last' = Step("FollowUser", p, u, v, "already_following")
            /\ UNCHANGED <<pc, loc>>
       ELSE /\ pc' = [pc EXCEPT ![p] = "follow_insert"]
            /\ loc' = [loc EXCEPT ![p] = [NoLoc EXCEPT !.u = u, !.v = v]]
            /\ last' = Step("FollowUser.check", p, u, v, "none")
    /\ UNCHANGED <<tables, nextPost, nextComment, nextNotif>>

FollowUserInsert(p, fail) ==
    /\ pc[p] = "follow_insert"
    /\ LET u == loc[p].u
           v == loc[p].v
           err == FollowsPKViolation(u, v)
       IN /\ follows' = IF err \/ RollbackAfterNotify(fail)
                        THEN follows
                        ELSE [follows EXCEPT ![<<u, v>>] = @ + 1]
          /\ IF ReturnsOnError(err)
             THEN /\ last' = Step("FollowUser", p, u, v, "internal")
                  /\ UNCHANGED <<notifications, nextNotif>>
             ELSE \* NotifyFollow; its error is logged and dropped
                  /\ CreateNotification(fail, v, "follow", u, u)
                  /\ last' = [Step("FollowUser", p, u, v, "ok") EXCEPT !.nfail = fail]
    /\ pc' = [pc EXCEPT ![p] = "idle"]
    /\ UNCHANGED <<posts, likes, comments, nextPost, nextComment, nreq, loc>>

\* ----------------------------------------------- SocialService.UnfollowUser
UnfollowMatches_AnyFollowee(e, followerID, followeeID) == e[1] = followerID

\* DELETE FROM follows WHERE follower_id = $1 AND followee_id = $2
UnfollowMatches(e, followerID, followeeID) == e = <<followerID, followeeID>>

UnfollowUser(u, v) ==
    /\ Begin
    /\ LET hit == {e \in DOMAIN follows : follows[e] > 0 /\ UnfollowMatches(e, u, v)}
       IN /\ follows' = [e \in DOMAIN follows |-> IF e \in hit THEN 0 ELSE follows[e]]
          \* rowsAffected == 0
          /\ last' = Step("UnfollowUser", NULL, u, v,
                          IF hit = {} THEN "not_following" ELSE "ok")
    /\ UNCHANGED <<posts, likes, comments, notifications,
                   nextPost, nextComment, nextNotif, pc, loc>>

\* --------------------------------------------------- PostsService.CreatePost
\* the transaction of CreatePost: post insert, hashtag inserts, commit.
\* txFail is an error of any statement of the transaction (rolled back).
CreatePostCommit(p, u, txFail) ==
    /\ pc[p] = "idle"
    /\ Begin
    /\ posts' = IF txFail THEN posts ELSE posts \cup {[id |-> nextPost, author_id |-> u]}
    /\ nextPost' = IF txFail THEN nextPost ELSE nextPost + 1
    /\ IF ReturnsOnError(txFail)
       THEN /\ last' = Step("CreatePost", p, u, NULL, "internal")
            /\ UNCHANGED <<pc, loc>>
       ELSE /\ pc' = [pc EXCEPT ![p] = "notify_new_post"]
            /\ loc' = [loc EXCEPT ![p] = [NoLoc EXCEPT !.u = u, !.post = nextPost]]
            /\ last' = Step("CreatePost.commit", p, u, nextPost, "none")
    /\ UNCHANGED <<follows, likes, comments, notifications, nextComment, nextNotif>>

Followers_WithAuthor(authorID) ==
    {f \in Users : follows[<<f, authorID>>] > 0} \cup {authorID}

\* SELECT follower_id FROM follows WHERE followee_id = $1
Followers(authorID) == {f \in Users : follows[<<f, authorID>>] > 0}

\* NotifyNewPost, reading the follower list
NotifyNewPostRead(p) ==
    /\ pc[p] = "notify_new_post"
    /\ LET ids == Followers(loc[p].u)
       IN /\ loc' = [loc EXCEPT ![p].followerIDs = ids, ![p].todo = ids]
          /\ IF ids = {}
             THEN /\ pc' = [pc EXCEPT ![p] = "idle"]
                  /\ last' = Step("CreatePost", p, loc[p].u, loc[p].post, "ok")
             ELSE /\ pc' = [pc EXCEPT ![p] = "fan_out"]
                  /\ last' = Step("CreatePost.followers", p, loc[p].u, loc[p].post, "none")
    /\ UNCHANGED <<tables, nextPost, nextComment, nextNotif, nreq>>

RestAfter_Abort(todo, f, fail) == IF fail THEN {} ELSE todo \ {f}

\* after a failed insert the loop goes on with the followers that are left
RestAfter(todo, f, fail) == todo \ {f}

FanOutSkips_Unfollowed(f, authorID) == follows[<<f, authorID>>] = 0

\* the loop body builds the request from the id it scanned and inserts; it
\* has no second look at the follows table
FanOutSkips(f, authorID) == FALSE

\* one iteration of the loop of NotifyNewPost; rows come in no fixed order
NotifyNewPostInsert(p, f, fail) ==
    /\ pc[p] = "fan_out"
    /\ f \in loc[p].todo
    /\ IF FanOutSkips(f, loc[p].u)
       THEN UNCHANGED <<notifications, nextNotif>>
       ELSE CreateNotification(fail, f, "new_post", loc[p].post, loc[p].u)
    /\ posts' = IF RollbackAfterNotify(fail)
                THEN {q \in posts : q.id # loc[p].post} ELSE posts
    /\ LET rest == RestAfter(loc[p].todo, f, fail)
       IN /\ loc' = [loc EXCEPT ![p].todo = rest,
                                 ![p].att = Append(@, f),
                                 ![p].failed = IF fail THEN @ \cup {f} ELSE @]
          /\ IF rest = {}
             THEN /\ pc' = [pc EXCEPT ![p] = "idle"]
                  /\ last' = Step("CreatePost", p, loc[p].u, loc[p].post, "ok")
             ELSE /\ pc' = pc
                  /\ last' = Step("CreatePost.notify", p, loc[p].u, loc[p].post, "none")
    /\ UNCHANGED <<follows, likes, comments, nextPost, nextComment, nreq>>

\* ----------------------------------------------------- PostsService.LikePost
LikeIsOwn_Never(likerID, postAuthorID) == FALSE

\* "Don't notify if user likes their own post"
LikeIsOwn(likerID, postAuthorID) == likerID = postAuthorID

LikeOnConflict_Insert(n) == n + 1

\* ON CONFLICT (user_id, post_id) DO NOTHING, n rows of the pair being there
LikeOnConflict(n) == IF n > 0 THEN n ELSE n + 1

LikePost(u, post, fail) ==
    /\ Begin
    /\ IF post \notin PostIDs
       THEN \* post_id REFERENCES posts(id): the insert is rejected
            /\ last' = Step("LikePost", NULL, u, post, "internal")
            /\ UNCHANGED <<likes, notifications, nextNotif>>
       ELSE /\ likes' = IF RollbackAfterNotify(fail /\ ~LikeIsOwn(u, PostByID(post).author_id))
                       THEN likes
                       ELSE [likes EXCEPT ![<<u, post>>] = LikeOnConflict(@)]
            \* NotifyLike; its error is logged and dropped
            /\ IF LikeIsOwn(u, PostByID(post).author_id)
               THEN UNCHANGED <<notifications, nextNotif>>
               ELSE CreateNotification(fail, PostByID(post).author_id, "like", post, u)
            /\ last' = [Step("LikePost", NULL, u, post, "ok") EXCEPT
                            !.nfail = fail /\ ~LikeIsOwn(u, PostByID(post).author_id)]
    /\ UNCHANGED <<follows, posts, comments, nextPost, nextComment, pc, loc>>

\* ------------------------------------------------ PostsService.CreateComment
CommentIsOwn_Never(commenterID, postAuthorID) == FALSE

\* "Don't notify if user comments on their own post"
CommentIsOwn(commenterID, postAuthorID) == commenterID = postAuthorID

CreateComment(u, post, fail) ==
    /\ Begin
    /\ IF post \notin PostIDs
       THEN \* post_id REFERENCES posts(id): the insert is rejected
            /\ last' = Step("CreateComment", NULL, u, post, "internal")
            /\ UNCHANGED <<comments, nextComment, notifications, nextNotif>>
       ELSE /\ comments' = IF RollbackAfterNotify(fail /\ ~CommentIsOwn(u, PostByID(post).author_id))
                          THEN comments
                          ELSE comments \cup {[id |-> nextComment, post_id |-> post,
                                               author_id |-> u]}
            /\ nextComment' = nextComment + 1
            \* NotifyComment; its error is logged and dropped
            /\ IF CommentIsOwn(u, PostByID(post).author_id)
               THEN UNCHANGED <<notifications, nextNotif>>
               ELSE CreateNotification(fail, PostByID(post).author_id, "comment", post, u)
            /\ last' = [Step("CreateComment", NULL, u, post, "ok") EXCEPT
                            !.nfail = fail /\ ~CommentIsOwn(u, PostByID(post).author_id)]
    /\ UNCHANGED <<follows, posts, likes, nextPost, pc, loc>>

\* --------------------------------------------------- PostsService.DeletePost
\* SELECT author_id FROM posts WHERE id = $1, the owner check, then
\* DELETE FROM posts; likes and comments go by ON DELETE CASCADE, while
\* notifications.entity_id is no foreign key and keeps naming the post.
DeletePost(u, post) ==
    /\ Begin
    /\ IF post \notin PostIDs
       THEN /\ last' = Step("DeletePost", NULL, u, post, "not_found")
            /\ UNCHANGED <<posts, likes, comments>>
       ELSE IF PostByID(post).author_id # u
       THEN /\ last' = Step("DeletePost", NULL, u, post, "access_denied")
            /\ UNCHANGED <<posts, likes, comments>>
       ELSE /\ posts' = {q \in posts : q.id # post}
            /\ likes' = [e \in DOMAIN likes |-> IF e[2] = post THEN 0 ELSE likes[e]]
            /\ comments' = {c \in comments : c.post_id # post}
            /\ last' = Step("DeletePost", NULL, u, post, "ok")
    /\ UNCHANGED <<follows, notifications, nextPost, nextComment, nextNotif, pc, loc>>

\* ----------------------------------------------- SocialService.GetFollowStats
\* COUNT(*) over the rows of a table kept as multiplicities
RECURSIVE CountRows(_, _)
CountRows(table, keys) ==
    IF keys = {} THEN 0
    ELSE LET k == CHOOSE k \in keys : TRUE
         IN table[k] + CountRows(table, keys \ {k})

FollowersOf_Follower(userID) == {e \in DOMAIN follows : e[1] = userID}

\* FROM follows WHERE followee_id = $1
FollowersOf(userID) == {e \in DOMAIN follows : e[2] = userID}

\* FROM follows WHERE follower_id = $1
FollowingOf(userID) == {e \in DOMAIN follows : e[1] = userID}

\* currentUserID = NULL is uuid.Nil, the viewer of an anonymous request
GetFollowStats(userID, currentUserID) ==
    [FollowersCount |-> CountRows(follows, FollowersOf(userID)),
     FollowingCount |-> CountRows(follows, FollowingOf(userID)),
     IsFollowing |-> IF currentUserID # NULL
                     THEN CountRows(follows, {<<currentUserID, userID>>}) > 0
                     ELSE FALSE,
     err |-> FALSE]

\* ------------------------------------------------------ SocialService.GetFeed
FeedAuthors_Followers(userID) ==
    {v \in Users : follows[<<v, userID>>] > 0} \cup {userID}

\* SELECT followee_id FROM follows WHERE follower_id = $1 UNION SELECT $1
FeedAuthors(userID) ==
    {v \in Users : follows[<<userID, v>>] > 0} \cup {userID}

\* the rows a LEFT JOIN contributes: the matching rows, or one all-NULL row
LeftJoin(matching, nullRow) == IF matching = {} THEN {nullRow} ELSE matching

NullLike == <<NULL, NULL>>
NullComment == [id |-> NULL, post_id |-> NULL, author_id |-> NULL]

\* rows of likes with post_id = id; r[2] tells rows of one (user_id, post_id) apart
LikeRows(id) == {r \in Users \X (1..MaxRequests) : r[2] <= likes[<<r[1], id>>]}

\* FROM posts p JOIN users u LEFT JOIN likes l LEFT JOIN comments c
\* LEFT JOIN likes ul ON ... AND ul.user_id = $1, for one post
FeedJoin(userID, q) ==
    {[l |-> l, c |-> c, ul |-> ul] :
        l \in LeftJoin(LikeRows(q.id), NullLike),
        c \in LeftJoin({c \in comments : c.post_id = q.id}, NullComment),
        ul \in LeftJoin({r \in LikeRows(q.id) : r[1] = userID}, NullLike)}

\* COUNT(l.user_id), COUNT(c.id) without DISTINCT
FeedGroups_CountRows(userID, q) ==
    {[id |-> q.id, author_id |-> q.author_id,
      like_count |-> Cardinality({r \in FeedJoin(userID, q) :
                                     r.l # NullLike /\ r.ul[1] = key}),
      comment_count |-> Cardinality({r \in FeedJoin(userID, q) :
                                     r.c # NullComment /\ r.ul[1] = key}),
      is_liked |-> key # NULL] :
        key \in {r.ul[1] : r \in FeedJoin(userID, q)}}

\* GROUP BY p.id, u.*, ul.user_id with the aggregates of the select list
FeedGroups(userID, q) ==
    {[id |-> q.id, author_id |-> q.author_id,
      like_count |-> Cardinality({r.l[1] : r \in {r \in FeedJoin(userID, q) :
                                     r.l # NullLike /\ r.ul[1] = key}}),
      comment_count |-> Cardinality({r.c.id : r \in {r \in FeedJoin(userID, q) :
                                     r.c # NullComment /\ r.ul[1] = key}}),
      is_liked |-> key # NULL] :
        key \in {r.ul[1] : r \in FeedJoin(userID, q)}}

FeedRows(userID) ==
    UNION {FeedGroups(userID, q) : q \in {q \in posts : q.author_id \in FeedAuthors(userID)}}

\* ORDER BY p.created_at DESC; posts get their created_at in id order
RECURSIVE OrderByCreatedDesc(_)
OrderByCreatedDesc(rows) ==
    IF rows = {} THEN <<>>
    ELSE LET r == CHOOSE r \in rows : \A o \in rows : o.id <= r.id
         IN <<r>> \o OrderByCreatedDesc(rows \ {r})

LimitOffset_NoOffset(seq, limit, offset) ==
    SubSeq(seq, 1, IF limit < Len(seq) THEN limit ELSE Len(seq))

\* LIMIT $2 OFFSET $3
LimitOffset(seq, limit, offset) ==
    SubSeq(seq, offset + 1, IF offset + limit < Len(seq) THEN offset + limit ELSE Len(seq))

GetFeed(userID, limit, offset) ==
    LimitOffset(OrderByCreatedDesc(FeedRows(userID)), limit, offset)

\* -------------------------------------------- NotificationService read state
MarkAsReadMatches_NoReadGuard(n, notificationID, userID) ==
    n.id = notificationID /\ n.user_id = userID

\* WHERE id = $1 AND user_id = $2 AND read_at IS NULL
MarkAsReadMatches(n, notificationID, userID) ==
    n.id = notificationID /\ n.user_id = userID /\ n.read_at = NULL

MarkAsReadResult_Ok(rowsAffected) == "ok"

\* if rowsAffected == 0: "notification not found or already read"
MarkAsReadResult(rowsAffected) ==
    IF rowsAffected = 0 THEN "not_found_or_read" ELSE "ok"

MarkAsRead(u, id) ==
    /\ Begin
    /\ LET hit == {n \in notifications : MarkAsReadMatches(n, id, u)}
       IN /\ notifications' = (notifications \ hit) \cup
                               {[n EXCEPT !.read_at = nreq'] : n \in hit}
          /\ last' = Step("MarkAsRead", NULL, u, id, MarkAsReadResult(Cardinality(hit)))
    /\ UNCHANGED <<follows, posts, likes, comments,
                   nextPost, nextComment, nextNotif, pc, loc>>

MarkAllMatches_Unowned(n, userID) == n.read_at = NULL /\ n.user_id # userID

\* WHERE user_id = $1 AND read_at IS NULL
MarkAllMatches(n, userID) == n.user_id = userID /\ n.read_at = NULL

MarkAllAsRead(u) ==
    /\ Begin
    /\ LET hit == {n \in notifications : MarkAllMatches(n, u)}
       IN notifications' = (notifications \ hit) \cup
                            {[n EXCEPT !.read_at = nreq'] : n \in hit}
    /\ last' = Step("MarkAllAsRead", NULL, u, NULL, "ok")
    /\ UNCHANGED <<follows, posts, likes, comments,
                   nextPost, nextComment, nextNotif, pc, loc>>

DeleteMatches_AnyOwner(n, notificationID, userID) == n.id = notificationID

\* WHERE id = $1 AND user_id = $2
DeleteMatches(n, notificationID, userID) == n.id = notificationID /\ n.user_id = userID

DeleteResult_Ok(rowsAffected) == "ok"

\* if rowsAffected == 0: "notification not found"
DeleteResult(rowsAffected) == IF rowsAffected = 0 THEN "not_found" ELSE "ok"

DeleteNotification(u, id) ==
    /\ Begin
    /\ LET hit == {n \in notifications : DeleteMatches(n, id, u)}
       IN /\ notifications' = notifications \ hit
          /\ last' = Step("DeleteNotification", NULL, u, id, DeleteResult(Cardinality(hit)))
    /\ UNCHANGED <<follows, posts, likes, comments,
                   nextPost, nextComment, nextNotif, pc, loc>>

GetUnreadCount_AllUsers(userID) ==
    Cardinality({n \in notifications : n.read_at = NULL})

\* SELECT COUNT(*) FROM notifications WHERE user_id = $1 AND read_at IS NULL
GetUnreadCount(userID) ==
    Cardinality({n \in notifications : n.user_id = userID /\ n.read_at = NULL})

\* ------------------------------------ NotificationService.GetUserNotifications
\* a listed notification: Actor and Post are NULL until a populate step sets them
Enriched(n, actor, post) ==
    [id |-> n.id, type |-> n.type, read_at |-> n.read_at,
     actor |-> actor, post |-> post, err |-> FALSE]

\* a populate step returned an error (QueryRow(...).Scan on no row)
PopulateFailed(n) ==
    [id |-> n.id, type |-> n.type, read_at |-> n.read_at,
     actor |-> NULL, post |-> NULL, err |-> TRUE]

\* notification.Payload["liker_id"]: only NotifyLike writes that key
HasLikerID(n) == n.type = "like"

\* actor is what notification.Actor holds when the function is entered
populateLikeData(n, actor) ==
    IF n.entity_id = NULL \/ ~HasLikerID(n) THEN Enriched(n, actor, NULL)
    ELSE IF n.entity_id \notin PostIDs THEN PopulateFailed(n)
    ELSE Enriched(n, n.actor, n.entity_id)

\* sets Actor from commenter_id, then "Get post info (same as in populateLikeData)"
populateCommentData(n) ==
    IF n.entity_id = NULL THEN Enriched(n, NULL, NULL)
    ELSE populateLikeData(n, n.actor)

populateFollowData(n) ==
    IF n.entity_id = NULL THEN Enriched(n, NULL, NULL)
    ELSE Enriched(n, n.entity_id, NULL)

populateNewPostData(n) ==
    IF n.entity_id = NULL THEN Enriched(n, NULL, NULL)
    ELSE IF n.entity_id \notin PostIDs THEN PopulateFailed(n)
    ELSE Enriched(n, PostByID(n.entity_id).author_id, n.entity_id)

populateNotificationData(n) ==
    CASE n.type = "like" -> populateLikeData(n, NULL)
      [] n.type = "comment" -> populateCommentData(n)
      [] n.type = "follow" -> populateFollowData(n)
      [] n.type = "new_post" -> populateNewPostData(n)
      [] OTHER -> Enriched(n, NULL, NULL)

\* WHERE n.user_id = $1 ORDER BY n.created_at DESC LIMIT $2 OFFSET $3, then
\* populateNotificationData per row; the first error ends the call
GetUserNotifications(userID, limit, offset) ==
    LET page == LimitOffset(OrderByCreatedDesc({n \in notifications : n.user_id = userID}),
                            limit, offset)
        rows == [i \in DOMAIN page |-> populateNotificationData(page[i])]
    IN IF \E i \in DOMAIN rows : rows[i].err
       THEN [err |-> TRUE, rows |-> <<>>]
       ELSE [err |-> FALSE, rows |-> rows]

\* -------------------------------------------------------- the request layer
StatusOK == 200
StatusBadRequest == 400
StatusInternalServerError == 500

\* SocialHandler.FollowUser / UnfollowUser: every service error is answered
\* with respondWithError(w, err.Error(), http.StatusBadRequest)
SocialHandlerStatus(out) == IF out = "ok" THEN StatusOK ELSE StatusBadRequest

\* NotificationsHandler.MarkAsRead / DeleteNotification: every service error
\* is answered with respondWithError(w, err.Error(), http.StatusInternalServerError)
NotificationsHandlerStatus(out) == IF out = "ok" THEN StatusOK ELSE StatusInternalServerError

\* the HTTP status of the response to the request that step ends
ResponseStatus(step) ==
    CASE step.op \in {"FollowUser", "UnfollowUser"} -> SocialHandlerStatus(step.out)
      [] step.op \in {"MarkAsRead", "DeleteNotification"} -> NotificationsHandlerStatus(step.out)
      [] OTHER -> NULL

\* a multi-statement request runs in the first free slot
FreeSlot(p) == pc[p] = "idle" /\ \A q \in Procs : q < p => pc[q] # "idle"

Next ==
    \/ \E p \in Procs, u \in Users, v \in Users : FreeSlot(p) /\ FollowUserCheck(p, u, v)
    \/ \E p \in Procs, fail \in BOOLEAN : FollowUserInsert(p, fail)
    \/ \E u \in Users, v \in Users : UnfollowUser(u, v)
    \/ \E p \in Procs, u \in Users, txFail \in BOOLEAN : FreeSlot(p) /\ CreatePostCommit(p, u, txFail)
    \/ \E p \in Procs : NotifyNewPostRead(p)
    \/ \E p \in Procs, f \in Users, fail \in BOOLEAN : NotifyNewPostInsert(p, f, fail)
    \/ \E u \in Users, post \in 1..nextPost, fail \in BOOLEAN : LikePost(u, post, fail)
    \/ \E u \in Users, post \in 1..nextPost, fail \in BOOLEAN : CreateComment(u, post, fail)
    \/ \E u \in Users, post \in 1..nextPost : DeletePost(u, post)
    \/ \E u \in Users, id \in 1..nextNotif : MarkAsRead(u, id)
    \/ \E u \in Users : MarkAllAsRead(u)
    \/ \E u \in Users, id \in 1..nextNotif : DeleteNotification(u, id)

Spec == Init /\ [][Next]_vars

\* ---------------------------------------------- GetFeed over drawn tables
\* post i was created by user ((i - 1) mod NumUsers) + 1
FeedPosts == {[id |-> i, author_id |-> ((i - 1) % NumUsers) + 1] : i \in 1..MaxRequests}

\* tables the writes above can leave behind: MaxRequests posts, the edges of
\* one follower, one post with any set of likers and up to MaxRequests
\* comments; the notifications of these writes have been deleted by their
\* owners, and one request of the budget is left
InitFeed ==
    /\ posts = FeedPosts
    /\ \E f \in Users, S \in SUBSET Users :
         follows = [e \in Users \X Users |->
                       IF e[1] = f /\ e[2] \in S /\ e[2] # f THEN 1 ELSE 0]
    /\ \E hot \in 1..MaxRequests, L \in SUBSET Users, k \in 0..MaxRequests :
         /\ likes = [e \in Users \X Ids |-> IF e[2] = hot /\ e[1] \in L THEN 1 ELSE 0]
         /\ comments = {[id |-> j, post_id |-> hot, author_id |-> ((j - 1) % NumUsers) + 1] :
                           j \in 1..k}
         /\ nextComment = k + 1
    /\ notifications = {}
    /\ nextPost = MaxRequests + 1
    /\ nextNotif = 1
    /\ nreq = MaxRequests - 1
    /\ pc = [p \in Procs |-> "idle"]
    /\ loc = [p \in Procs |-> NoLoc]
    /\ last = NoStep

\* SocialService.GetFeed as a request: it reads the tables and returns rows
GetFeedRequest(userID, limit, offset) ==
    /\ Begin
    /\ last' = [op |-> "GetFeed", proc |-> NULL, u |-> userID, x |-> NULL, out |-> "ok",
                nfail |-> FALSE, limit |-> limit, offset |-> offset,
                rows |-> GetFeed(userID, limit, offset)]
    /\ UNCHANGED <<tables, nextPost, nextComment, nextNotif, pc, loc>>

NextFeed ==
    \E u \in Users, limit \in 0..MaxRequests, offset \in 0..MaxRequests :
        GetFeedRequest(u, limit, offset)

SpecFeed == InitFeed /\ [][NextFeed]_vars

\* ------------------------------------------------------------ truncateText
\* a text is a string of bytes; 46 is '.', 97 is 'a'
Bytes == {46, 97}

Texts == UNION {[1..n -> Bytes] : n \in 0..MaxText}

Ellipsis == <<46, 46, 46>>

truncateText_OffByOne(text, maxLength) ==
    IF Len(text) < maxLength THEN text ELSE SubSeq(text, 1, maxLength) \o Ellipsis

\* if len(text) <= maxLength { return text }; return text[:maxLength] + "..."
truncateText(text, maxLength) ==
    IF Len(text) <= maxLength THEN text ELSE SubSeq(text, 1, maxLength) \o Ellipsis

\* one call of truncateText, as NotifyLike, NotifyComment and NotifyNewPost make it
TruncateCall(text, maxLength) ==
    /\ last' = [op |-> "truncateText", proc |-> NULL, u |-> NULL, x |-> NULL, out |-> "ok",
                nfail |-> FALSE, text |-> text, maxLength |-> maxLength,
                result |-> truncateText(text, maxLength)]
    /\ UNCHANGED <<tables, nextPost, nextComment, nextNotif, nreq, pc, loc>>

NextTruncate ==
    \E text \in Texts, maxLength \in 0..(MaxText + 1) : TruncateCall(text, maxLength)

SpecTruncate == Init /\ [][NextTruncate]_vars

\* --------------------------------- NotificationsHandler.GetNotifications
\* limit := 20
DefaultLimit == 20

\* parsedLimit <= 100
MaxLimit == 100

\* the limit the unread_only branch passes to GetUserNotifications
RecentLimit == 50

\* how many notifications beyond RecentLimit a drawn table holds at most
MaxOlder == 2

\* the limit query parameter; NULL is an absent or unparsable one
ParseLimit(limitParam) ==
    IF limitParam # NULL /\ limitParam > 0 /\ limitParam <= MaxLimit
    THEN limitParam ELSE DefaultLimit

\* the offset query parameter; absent, unparsable and negative ones leave 0
ParseOffset(offsetParam) == IF offsetParam >= 0 THEN offsetParam ELSE 0

IsUnread(n) == n.read_at = NULL

RecentNotifications_All(userID) ==
    GetUserNotifications(userID, Cardinality(notifications), 0)

\* allNotifications: GetUserNotifications(r.Context(), userID, 50, 0)
RecentNotifications(userID) == GetUserNotifications(userID, RecentLimit, 0)

\* notifications[offset:end]
Slice(seq, offset, end) == SubSeq(seq, offset + 1, end)

\* the response: its status, the limit and offset it echoes, and the list
GetNotifications(userID, limitParam, offsetParam, unreadOnly) ==
    LET limit == ParseLimit(limitParam)
        offset == ParseOffset(offsetParam)
        got == IF unreadOnly THEN RecentNotifications(userID)
               ELSE GetUserNotifications(userID, limit, offset)
        unread == SelectSeq(got.rows, IsUnread)
        end == IF offset + limit > Len(unread) THEN Len(unread) ELSE offset + limit
    IN IF got.err
       THEN [status |-> StatusInternalServerError, limit |-> limit, offset |-> offset,
             rows |-> <<>>]
       ELSE [status |-> StatusOK, limit |-> limit, offset |-> offset,
             rows |-> IF ~unreadOnly THEN got.rows
                      ELSE IF offset >= Len(unread) THEN <<>>
                      ELSE Slice(unread, offset, end)]

\* tables repeated FollowUser / UnfollowUser of user 2 on user 1 leave
\* behind: N follow notifications of user 1, RecentLimit - 1 <= N <=
\* RecentLimit + MaxOlder, of which user 1 has marked all but some of the
\* MaxOlder oldest and the two newest; user 2 holds one of a follow by user 1
InitUnread ==
    /\ follows = [e \in Users \X Users |-> IF e = <<2, 1>> THEN 1 ELSE 0]
    /\ posts = {}
    /\ likes = [e \in Users \X Ids |-> 0]
    /\ comments = {}
    /\ \E N \in (RecentLimit - 1)..(RecentLimit + MaxOlder) :
         \E U \in SUBSET ((1..MaxOlder) \cup ((N - 1)..N)) :
            /\ notifications =
                  {[id |-> i, user_id |-> 1, type |-> "follow", entity_id |-> 2,
                    actor |-> 2, read_at |-> IF i \in U THEN NULL ELSE 1] : i \in 1..N}
                  \cup {[id |-> N + 1, user_id |-> 2, type |-> "follow",
                          entity_id |-> 1, actor |-> 1, read_at |-> NULL]}
            /\ nextNotif = N + 2
    /\ nextPost = 1
    /\ nextComment = 1
    /\ nreq = MaxRequests - 1
    /\ pc = [p \in Procs |-> "idle"]
    /\ loc = [p \in Procs |-> NoLoc]
    /\ last = NoStep

\* GET /notifications as a request: it reads the tables and responds
GetNotificationsRequest(userID, limitParam, offsetParam, unreadOnly) ==
    /\ Begin
    /\ LET resp == GetNotifications(userID, limitParam, offsetParam, unreadOnly)
       IN last' = [op |-> "GetNotifications", proc |-> NULL, u |-> userID, x |-> NULL,
                   out |-> IF resp.status = StatusOK THEN "ok" ELSE "internal",
                   nfail |-> FALSE, limitParam |-> limitParam, unread_only |-> unreadOnly,
                   limit |-> resp.limit, offset |-> resp.offset, rows |-> resp.rows]
    /\ UNCHANGED <<tables, nextPost, nextComment, nextNotif, pc, loc>>

NextUnread ==
    \E u \in Users, limitParam \in 0..MaxOlder, offsetParam \in (0 - 1)..MaxOlder,
       unreadOnly \in BOOLEAN :
        GetNotificationsRequest(u, limitParam, offsetParam, unreadOnly)

SpecUnread == InitUnread /\ [][NextUnread]_vars

\* ================================================================ claims
\* the step just taken was a call of FollowUser that returned
FollowReturned == last.op = "FollowUser"

\* the step just taken is the first statement of a FollowUser call
FollowCalled == last.op \in {"FollowUser", "FollowUser.check"} /\ last.out # "ok"
                /\ last.out # "internal"

\* the rows inserted into notifications by the step
Created == {n \in notifications' : n.id \notin {m.id : m \in notifications}}

FollowNotifs(a, b) ==
    {n \in notifications : n.type = "follow" /\ n.user_id = b /\ n.actor = a}

\* C1: no follow edge ever has follower = followee; FollowUser(u, u) returns
\* the self-follow error at once, and that call inserts no edge and creates
\* no notification.
C1_NoSelfFollow ==
    /\ [](\A u \in Users : follows[<<u, u>>] = 0)
    /\ []((FollowCalled /\ last.u = last.x) => last.out = "self_follow")
    /\ [][(last'.op = "FollowUser" /\ last'.out = "self_follow")
            => (follows' = follows /\ notifications' = notifications)]_vars

C1_Witness ==
    /\ last.op = "FollowUser" /\ last.out = "self_follow" /\ last.u = last.x
    /\ \E e \in Users \X Users : follows[e] > 0

\* C2: FollowUser(a, b) for distinct a, b with no edge (a, b) and no other
\* request in between succeeds and leaves exactly one edge; a FollowUser(a, b)
\* called while the edge exists returns the already-following error and
\* changes neither the follow edges nor the notifications.
C2_FollowTwice ==
    /\ []((FollowReturned /\ last.out = "ok") => follows[<<last.u, last.x>>] = 1)
    /\ [][/\ (last'.op = "FollowUser.check") => follows[<<last'.u, last'.x>>] = 0
          /\ (nreq' # nreq /\ last'.op \in {"FollowUser", "FollowUser.check"}
              /\ last'.u # last'.x /\ follows[<<last'.u, last'.x>>] > 0)
                => /\ last'.op = "FollowUser"
                   /\ last'.out = "already_following"
                   /\ follows' = follows
                   /\ notifications' = notifications
          /\ (nreq' = nreq /\ last'.op = "FollowUser"
              /\ follows[<<last'.u, last'.x>>] = 0)
                => /\ last'.out = "ok"
                   /\ follows'[<<last'.u, last'.x>>] = 1]_vars

C2_Witness ==
    /\ last.op = "FollowUser" /\ last.out = "already_following"
    /\ follows[<<last.u, last.x>>] = 1
    /\ Cardinality(FollowNotifs(last.u, last.x)) = 1

\* C3: whatever the interleaving of the count checks and inserts of
\* concurrent FollowUser calls, the follows table holds at most one row per
\* pair, and a follow notification is created only by the step that takes
\* the pair from no row to one row (so two racing calls create at most one).
C3_ConcurrentFollow ==
    /\ [](\A e \in Users \X Users : follows[e] <= 1)
    /\ [][\A n \in Created :
            n.type = "follow" =>
                /\ follows[<<n.actor, n.user_id>>] = 0
                /\ follows'[<<n.actor, n.user_id>>] = 1
                /\ Cardinality(Created) = 1]_vars

\* both calls passed the count check, one inserted, the other has returned
C3_Witness ==
    /\ last.op = "FollowUser" /\ last.proc = 2 /\ last.out = "internal"
    /\ loc[1].u = loc[2].u /\ loc[1].v = loc[2].v
    /\ follows[<<last.u, last.x>>] = 1
    /\ Cardinality(FollowNotifs(last.u, last.x)) = 1

\* C4: a FollowUser call that lost the race after passing the count check
\* returns the already-following error, never a storage constraint error.
C4_RaceLoserAlreadyFollowing ==
    (FollowReturned /\ last.out # "ok" /\ last.u # last.x) => last.out = "already_following"

C6_NoSelfNotification ==
    \A n \in notifications : n.user_id # n.actor

C6_Witness ==
    /\ \E n \in notifications : n.type = "new_post"
    /\ \E n \in notifications : n.type = "follow"
    /\ \E n \in notifications : n.type \in {"like", "comment"}

\* C7: a like or a comment of a user on a post of their own is stored, the
\* call succeeds, and the notifications table is left unchanged.
C7_OwnPostNoNotification ==
    [][/\ (last'.op = "LikePost" /\ last'.x \in PostIDs
           /\ PostByID(last'.x).author_id = last'.u)
             => /\ last'.out = "ok"
                /\ likes'[<<last'.u, last'.x>>] = 1
                /\ notifications' = notifications
       /\ (last'.op = "CreateComment" /\ last'.x \in PostIDs
           /\ PostByID(last'.x).author_id = last'.u)
             => /\ last'.out = "ok"
                /\ \E c \in comments' \ comments :
                       c.post_id = last'.x /\ c.author_id = last'.u
                /\ notifications' = notifications]_vars

C7_Witness ==
    /\ last.op = "CreateComment" /\ last.out = "ok"
    /\ PostByID(last.x).author_id = last.u
    /\ likes[<<last.u, last.x>>] = 1
    /\ \E c \in comments : c.post_id = last.x /\ c.author_id = last.u
    /\ notifications = {}

\* the new_post notification of one fan-out for one follower
NewPostNotification(n, p, f) ==
    /\ n.type = "new_post" /\ n.user_id = f
    /\ n.entity_id = loc[p].post /\ n.actor = loc[p].u /\ n.read_at = NULL

\* a CreatePost call has just returned the created post
CreatePostReturned == last.op = "CreatePost" /\ last.out = "ok"

\* C8: a CreatePost of author u whose notification inserts all succeed
\* creates exactly one new_post notification with entity_id = the new post
\* for each user following u when the fan-out reads the follower list, none
\* for u and none for any other user.
C8_FanOutComplete ==
    /\ [](CreatePostReturned =>
            LET l == loc[last.proc]
            IN /\ Len(l.att) = Cardinality(l.followerIDs)
               /\ {l.att[i] : i \in DOMAIN l.att} = l.followerIDs
               /\ l.u \notin l.followerIDs)
    /\ [][/\ (last'.op \in {"CreatePost", "CreatePost.followers"} /\ pc[last'.proc] = "notify_new_post")
             => /\ loc'[last'.proc].followerIDs = {f \in Users : follows[<<f, last'.u>>] > 0}
                /\ notifications' = notifications
          /\ (last'.op \in {"CreatePost", "CreatePost.notify"} /\ pc[last'.proc] = "fan_out")
             => LET p == last'.proc
                    f == loc'[p].att[Len(loc'[p].att)]
                IN /\ f \in loc[p].followerIDs
                   /\ f \notin {loc[p].att[i] : i \in DOMAIN loc[p].att}
                   /\ f \notin loc'[p].failed =>
                        /\ Cardinality(Created) = 1
                        /\ \A n \in Created : NewPostNotification(n, p, f)
                        /\ notifications \subseteq notifications']_vars

C8_Witness ==
    /\ CreatePostReturned
    /\ loc[last.proc].failed = {}
    /\ Cardinality(loc[last.proc].followerIDs) = 2
    /\ \A f \in Users :
         Cardinality({n \in notifications : n.type = "new_post" /\ n.user_id = f
                                            /\ n.entity_id = last.x})
           = IF follows[<<f, last.u>>] > 0 THEN 1 ELSE 0

\* C9: a failed notification insert for one follower does not stop the
\* fan-out: every follower read is attempted, CreatePost returns the
\* created post, and no fan-out step touches the posts table.
C9_FanOutSkipsFailures ==
    /\ []((last.op = "CreatePost" /\ last.x # NULL) =>
            /\ last.out = "ok"
            /\ {loc[last.proc].att[i] : i \in DOMAIN loc[last.proc].att}
                 = loc[last.proc].followerIDs)
    /\ [][(last'.op \in {"CreatePost", "CreatePost.notify", "CreatePost.followers"}
           /\ last'.x # NULL)
            => /\ posts' = posts
               /\ pc[last'.proc] = "fan_out" =>
                    (loc[last'.proc].todo \ loc'[last'.proc].todo)
                        = {loc'[last'.proc].att[Len(loc'[last'.proc].att)]}]_vars

\* the insert for the first follower failed, the second one was still made
C9_Witness ==
    /\ CreatePostReturned
    /\ last.x \in PostIDs
    /\ Len(loc[last.proc].att) = 2
    /\ loc[last.proc].failed = {loc[last.proc].att[1]}
    /\ \E n \in notifications : NewPostNotification(n, last.proc, loc[last.proc].att[2])
    /\ ~ \E n \in notifications : NewPostNotification(n, last.proc, loc[last.proc].att[1])

\* C10: read_at of a notification starts NULL, and once set no step changes
\* it, neither back to NULL nor to another timestamp.
C10_ReadAtMonotone ==
    [][/\ \A m \in notifications' :
            (m.id \notin {n.id : n \in notifications}) => m.read_at = NULL
       /\ \A n \in notifications : \A m \in notifications' :
            (m.id = n.id /\ n.read_at # NULL) => m.read_at = n.read_at]_vars

\* a notification read in an earlier request is still there after a later
\* MarkAsRead / MarkAllAsRead of its owner
C10_Witness ==
    /\ last.op \in {"MarkAsRead", "MarkAllAsRead"}
    /\ \E n \in notifications :
         n.user_id = last.u /\ n.read_at # NULL /\ n.read_at < nreq
         /\ (last.op = "MarkAsRead" => last.x = n.id)

\* C11: MarkAsRead(id, owner) returns success exactly when a notification
\* with that id, owned by owner and unread, is stored; then it sets read_at
\* of that notification and touches no other. Every other call (already
\* read, foreign owner, unknown id) returns the not-found-or-already-read
\* error and leaves the notifications table as it was.
C11_MarkAsReadExact ==
    [][(last'.op = "MarkAsRead") =>
        LET target == {n \in notifications :
                          n.id = last'.x /\ n.user_id = last'.u /\ n.read_at = NULL}
        IN /\ last'.out \in {"ok", "not_found_or_read"}
           /\ (last'.out = "ok") <=> (target # {})
           /\ (last'.out # "ok") => notifications' = notifications
           /\ (last'.out = "ok") =>
                /\ notifications \ target = notifications' \ {m \in notifications' : m.id = last'.x}
                /\ \A m \in notifications' :
                      m.id = last'.x => m.read_at # NULL /\ m.user_id = last'.u]_vars

\* the owner's second MarkAsRead on a notification they have read
C11_Witness ==
    /\ last.op = "MarkAsRead" /\ last.out = "not_found_or_read"
    /\ \E n \in notifications :
         n.id = last.x /\ n.user_id = last.u /\ n.read_at # NULL /\ n.read_at < nreq

\* C12: MarkAllAsRead(u) returns success whether or not u has unread
\* notifications, and GetUnreadCount(u) is 0 in the state it leaves; when the
\* next request is a like of one of u's posts by another user (its
\* notification insert not failing), GetUnreadCount(u) is 1 afterwards.
C12_MarkAllThenLike ==
    /\ []((last.op = "MarkAllAsRead") => (last.out = "ok" /\ GetUnreadCount(last.u) = 0))
    /\ [][\A a \in Users :
            (/\ last.op = "MarkAllAsRead" /\ last.u = a
             /\ last'.op = "LikePost" /\ last'.out = "ok" /\ ~last'.nfail
             /\ last'.u # a /\ last'.x \in PostIDs /\ PostByID(last'.x).author_id = a)
            => Cardinality({n \in notifications' : n.user_id = a /\ n.read_at = NULL}) = 1]_vars

\* MarkAllAsRead has just marked a notification of its caller
C12_Witness ==
    /\ last.op = "MarkAllAsRead" /\ last.out = "ok"
    /\ GetUnreadCount(last.u) = 0
    /\ \E n \in notifications : n.user_id = last.u /\ n.read_at = nreq
    /\ \E n \in notifications : n.user_id # last.u /\ n.read_at = NULL

\* C13: DeleteNotification(id, caller) removes the notification with that id
\* when caller owns it and nothing else; when the id is unknown or owned by
\* another user it returns the not-found error and the table is unchanged.
C13_DeleteOwnOnly ==
    [][(last'.op = "DeleteNotification") =>
        LET own == {n \in notifications : n.id = last'.x /\ n.user_id = last'.u}
        IN /\ (own # {}) => (last'.out = "ok" /\ notifications' = notifications \ own)
           /\ (own = {}) => (last'.out = "not_found" /\ notifications' = notifications)]_vars

\* a user tried to delete a notification of somebody else
C13_Witness ==
    /\ last.op = "DeleteNotification" /\ last.out = "not_found"
    /\ \E n \in notifications : n.id = last.x /\ n.user_id # last.u

\* C15: UnfollowUser(a, b) with no edge (a, b) returns the not-following
\* error and changes no table; with the edge it removes that edge, keeps
\* every other edge, and leaves the notifications table as it was.
C15_UnfollowExact ==
    [][(last'.op = "UnfollowUser") =>
        /\ notifications' = notifications
        /\ IF follows[<<last'.u, last'.x>>] = 0
           THEN last'.out = "not_following" /\ follows' = follows
           ELSE /\ last'.out = "ok"
                /\ follows'[<<last'.u, last'.x>>] = 0
                /\ \A e \in DOMAIN follows :
                      e # <<last'.u, last'.x>> => follows'[e] = follows[e]]_vars

\* a unfollowed b: a's other edge and b's follow notification are still there
C15_Witness ==
    /\ last.op = "UnfollowUser" /\ last.out = "ok"
    /\ follows[<<last.u, last.x>>] = 0
    /\ \E w \in Users : follows[<<last.u, w>>] > 0
    /\ FollowNotifs(last.u, last.x) # {}

\* C14: listing a user's notifications never fails because a referenced
\* post is gone: GetUserNotifications returns no error and the page holds
\* every notification of the user, the ones whose post was deleted included.
C14_ListingSurvivesDeletion ==
    \A u \in Users :
        LET r == GetUserNotifications(u, nextNotif, 0)
        IN /\ ~r.err
           /\ {r.rows[i].id : i \in DOMAIN r.rows}
                = {n.id : n \in {n \in notifications : n.user_id = u}}

\* C16: GetFollowStats(target, viewer) returns no error, FollowersCount =
\* the number of users with an edge to target, FollowingCount = the number
\* of users target has an edge to, and IsFollowing = the edge (viewer,
\* target) exists; for the nil viewer IsFollowing is false.
C16_FollowStats ==
    \A target \in Users : \A viewer \in Users \cup {NULL} :
        LET stats == GetFollowStats(target, viewer)
        IN /\ ~stats.err
           /\ stats.FollowersCount = Cardinality({f \in Users : follows[<<f, target>>] > 0})
           /\ stats.FollowingCount = Cardinality({f \in Users : follows[<<target, f>>] > 0})
           /\ stats.IsFollowing <=> (viewer # NULL /\ follows[<<viewer, target>>] > 0)

\* a user with two followers who follows one of them, seen by a follower,
\* by a non-follower and by the anonymous viewer
C16_Witness ==
    \E target \in Users, v \in Users, w \in Users :
        /\ GetFollowStats(target, NULL).FollowersCount = 2
        /\ GetFollowStats(target, NULL).FollowingCount = 1
        /\ ~GetFollowStats(target, NULL).IsFollowing
        /\ GetFollowStats(target, v).IsFollowing
        /\ follows[<<target, w>>] > 0 /\ ~GetFollowStats(w, w).IsFollowing
        /\ GetFollowStats(w, target).IsFollowing

\* the posts GetFeed(u, ...) may show: u's own and those of the users u follows
Visible(u) == {q \in posts : q.author_id = u \/ follows[<<u, q.author_id>>] > 0}

\* C17: the rows GetFeed(u, limit, offset) returns are posts of u's visible
\* author set, newest first, no post twice; they are the posts that have
\* exactly offset, offset + 1, ... newer visible posts, and there are
\* min(limit, visible posts left after the offset) of them, whatever the
\* likes and comments of the posts.
C17_FeedOrderAndPaging ==
    (last.op = "GetFeed") =>
        LET rows == last.rows
            left == IF Cardinality(Visible(last.u)) > last.offset
                    THEN Cardinality(Visible(last.u)) - last.offset ELSE 0
        IN /\ Len(rows) = IF last.limit < left THEN last.limit ELSE left
           /\ \A i \in DOMAIN rows :
                /\ \E q \in Visible(last.u) :
                      q.id = rows[i].id /\ q.author_id = rows[i].author_id
                /\ Cardinality({q \in Visible(last.u) : q.id > rows[i].id})
                     = last.offset + i - 1
           /\ \A i \in DOMAIN rows : \A j \in DOMAIN rows :
                i < j => rows[i].id > rows[j].id

\* the second page of one row, of a feed of three posts one of which has
\* two likes and two comments
C17_Witness ==
    /\ last.op = "GetFeed" /\ last.limit = 1 /\ last.offset = 1
    /\ Len(last.rows) = 1
    /\ Cardinality(Visible(last.u)) >= 3
    /\ \E q \in Visible(last.u) :
         /\ Cardinality({c \in comments : c.post_id = q.id}) >= 2
         /\ Cardinality({w \in Users : likes[<<w, q.id>>] > 0}) >= 2

\* C18: every row GetFeed(viewer, ...) returns has like_count = the number
\* of users with a like on the post, comment_count = the number of comments
\* on the post, and is_liked = viewer has a like on the post.
C18_FeedCounts ==
    (last.op = "GetFeed") =>
        \A i \in DOMAIN last.rows :
            LET r == last.rows[i]
            IN /\ r.like_count = Cardinality({w \in Users : likes[<<w, r.id>>] > 0})
               /\ r.comment_count = Cardinality({c \in comments : c.post_id = r.id})
               /\ r.is_liked <=> likes[<<last.u, r.id>>] > 0

\* a returned post with two likes and three comments that the viewer has not
\* liked, next to one they see without likes
C18_Witness ==
    /\ last.op = "GetFeed"
    /\ \E i \in DOMAIN last.rows :
         /\ last.rows[i].like_count = 2 /\ last.rows[i].comment_count = 3
         /\ ~last.rows[i].is_liked
    /\ \E i \in DOMAIN last.rows :
         last.rows[i].like_count = 0 /\ last.rows[i].comment_count = 0

\* C19: a LikePost(B, P) on a post P of another user A that B has no like
\* on, whose notification insert goes through, stores the like and creates
\* exactly one notification: recipient A, type like, entity_id P, liker_id
\* B, unread; it creates none for any other user and removes none.
C19_LikeNotification ==
    [][(/\ last'.op = "LikePost" /\ last'.out = "ok" /\ ~last'.nfail
        /\ last'.x \in PostIDs
        /\ PostByID(last'.x).author_id # last'.u
        /\ likes[<<last'.u, last'.x>>] = 0)
       => /\ Cardinality(Created) = 1
          /\ \A n \in Created :
                /\ n.user_id = PostByID(last'.x).author_id
                /\ n.type = "like"
                /\ n.entity_id = last'.x
                /\ n.actor = last'.u
                /\ n.read_at = NULL
          /\ notifications \subseteq notifications'
          /\ likes'[<<last'.u, last'.x>>] = 1]_vars

\* B's first like of A's post: the newest notification is the one for A
C19_Witness ==
    /\ last.op = "LikePost" /\ last.out = "ok" /\ ~last.nfail
    /\ last.x \in PostIDs /\ PostByID(last.x).author_id # last.u
    /\ likes[<<last.u, last.x>>] = 1
    /\ \E n \in notifications :
         /\ n.id = nextNotif - 1 /\ n.type = "like" /\ n.entity_id = last.x
         /\ n.actor = last.u /\ n.user_id = PostByID(last.x).author_id
    /\ Cardinality({n \in notifications : n.type = "like" /\ n.entity_id = last.x}) = 1
    /\ \A n \in notifications : n.type = "like" => n.user_id = PostByID(last.x).author_id

\* the validation, conflict and not-found outcomes of the services
ClientErrors ==
    {"self_follow", "already_following", "not_following", "not_found_or_read", "not_found"}

\* C20: a request that ends with a validation, conflict or not-found
\* outcome (self-follow, already-following, not-following, notification
\* already read or foreign, foreign notification to delete) is answered with
\* a 4xx status, never with a 5xx one.
C20_ClientErrorsAre4xx ==
    (/\ last.op \in {"FollowUser", "UnfollowUser", "MarkAsRead", "DeleteNotification"}
     /\ last.out \in ClientErrors)
    => (ResponseStatus(last) >= 400 /\ ResponseStatus(last) < 500)

\* C21: when the notification insert of a follow, like or comment fails, the
\* FollowUser, LikePost or CreateComment call does not report success.
C21_NotifyFailurePropagates ==
    (last.op \in {"FollowUser", "LikePost", "CreateComment"} /\ last.nfail)
        => last.out # "ok"

C23_NotifyAfterPrimaryWrite ==
    [][/\ (last'.op = "FollowUser" /\ last'.out # "ok") => notifications' = notifications
       /\ (last'.op = "FollowUser" /\ follows[<<last'.u, last'.x>>] > 0)
            => notifications' = notifications
       /\ (last'.op \in {"LikePost", "CreateComment"} /\ last'.x \notin PostIDs)
            => notifications' = notifications
       /\ (last'.op = "CreatePost" /\ nreq' # nreq /\ posts' = posts)
            => (notifications' = notifications /\ pc' = pc)
       /\ \A n \in Created :
            /\ n.type = "follow" => follows'[<<n.actor, n.user_id>>] > 0
            /\ n.type = "like" => likes'[<<n.actor, n.entity_id>>] > 0
            /\ n.type = "comment" =>
                 \E c \in comments' : c.post_id = n.entity_id /\ c.author_id = n.actor
            /\ n.type = "new_post" => n.entity_id < nextPost']_vars

\* the CreatePost of an author with a follower failed in its transaction:
\* the request is over and the follower has no new_post notification
C23_Witness ==
    /\ last.op = "CreatePost" /\ last.out = "internal" /\ last.x = NULL
    /\ pc[last.proc] = "idle"
    /\ \E f \in Users : follows[<<f, last.u>>] > 0
    /\ ~ \E n \in notifications : n.type = "new_post"
    /\ ~ \E q \in posts : q.author_id = last.u

\* C26: when the notification insert of a request fails, its primary write
\* stays: the step leaves the follow edge, the like row or the new comment
\* in the table exactly as the step with a successful insert does, and a
\* failed insert of the fan-out leaves the posts table, the new post
\* included, as it was.
C26_PrimaryWriteKept ==
    [][/\ (last'.op = "FollowUser" /\ last'.nfail)
            => follows' = [follows EXCEPT ![<<last'.u, last'.x>>] = 1]
       /\ (last'.op = "LikePost" /\ last'.nfail)
            => likes' = [likes EXCEPT ![<<last'.u, last'.x>>] = 1]
       /\ (last'.op = "CreateComment" /\ last'.nfail)
            => comments' = comments \cup
                   {[id |-> nextComment, post_id |-> last'.x, author_id |-> last'.u]}
       /\ \A p \in Procs :
            (pc[p] = "fan_out" /\ loc'[p].failed # loc[p].failed) => posts' = posts]_vars

\* a follow whose notification insert failed: the edge is stored, the
\* followee has no follow notification
C26_Witness ==
    /\ last.op = "FollowUser" /\ last.out = "ok" /\ last.nfail
    /\ follows[<<last.u, last.x>>] = 1
    /\ FollowNotifs(last.u, last.x) = {}

\* the ids of the notifications that were stored and have been deleted
Deleted == {i \in 1..(nextNotif - 1) : \A n \in notifications : n.id # i}

\* C24: a deleted notification stays deleted: no step stores a row with its
\* id again, every later MarkAsRead and DeleteNotification on its id returns
\* an error, no listing returns it and GetUnreadCount does not count it.
C24_DeletionAbsorbing ==
    /\ [](\A u \in Users :
            /\ \A k \in DOMAIN GetUserNotifications(u, nextNotif, 0).rows :
                  GetUserNotifications(u, nextNotif, 0).rows[k].id \notin Deleted
            /\ GetUnreadCount(u) =
                  Cardinality({n \in notifications : n.user_id = u /\ n.read_at = NULL
                                                      /\ n.id \notin Deleted}))
    /\ [][\A i \in Deleted :
            /\ \A n \in notifications' : n.id # i
            /\ (last'.op \in {"MarkAsRead", "DeleteNotification"} /\ last'.x = i)
                 => last'.out # "ok"]_vars

\* a request on the id of a notification deleted before has failed
C24_Witness ==
    /\ last.op \in {"MarkAsRead", "DeleteNotification"}
    /\ last.x \in Deleted
    /\ last.out # "ok"
    /\ nreq = MaxRequests

\* C25: every like and comment notification a listing returns, whose post
\* is still stored, comes with actor = the liking or commenting user and
\* post = the post it names, as read at the time of the listing.
C25_LikeCommentEnriched ==
    \A u \in Users :
        LET r == GetUserNotifications(u, nextNotif, 0)
        IN \A k \in DOMAIN r.rows : \A n \in notifications :
            (/\ n.id = r.rows[k].id
             /\ n.type \in {"like", "comment"}
             /\ n.entity_id \in PostIDs)
            => (r.rows[k].actor = n.actor /\ r.rows[k].post = n.entity_id)

\* the like notifications stored for liker u on post p
LikeNotifs(u, p) ==
    {n \in notifications : n.type = "like" /\ n.entity_id = p /\ n.actor = u}

\* C27: every LikePost(u, p) by a user other than the author of p (its
\* notification insert going through) adds exactly one like notification
\* for the author to those already stored, whether or not u had a like on p,
\* and leaves exactly one like row of (u, p); no pair ever has two rows.
C27_RepeatedLikes ==
    /\ [](\A e \in DOMAIN likes : likes[e] <= 1)
    /\ [][(/\ last'.op = "LikePost" /\ last'.out = "ok" /\ ~last'.nfail
            /\ last'.x \in PostIDs
            /\ PostByID(last'.x).author_id # last'.u)
           => /\ likes'[<<last'.u, last'.x>>] = 1
              /\ notifications \subseteq notifications'
              /\ Cardinality(Created) = 1
              /\ \A n \in Created :
                    /\ n.type = "like" /\ n.entity_id = last'.x /\ n.actor = last'.u
                    /\ n.user_id = PostByID(last'.x).author_id]_vars

\* the second like of u on p: one like row, two like notifications
C27_Witness ==
    /\ last.op = "LikePost" /\ last.out = "ok" /\ ~last.nfail
    /\ likes[<<last.u, last.x>>] = 1
    /\ Cardinality(LikeNotifs(last.u, last.x)) = 2
    /\ \A n \in LikeNotifs(last.u, last.x) : n.user_id # last.u

\* the followers slot p has inserted for so far
Attempted(p) == {loc[p].att[i] : i \in DOMAIN loc[p].att}

\* C28: the follower list of a fan-out is the set of followers of the author
\* in the state NotifyNewPost reads it, and it is fixed from then on: steps
\* of other requests (Follow, Unfollow) do not change it, every insert of
\* the fan-out goes to a user of that list not served yet, whatever the
\* follows table holds by then, and no other step creates a new_post
\* notification. The feed follows the current table: a post of an author f
\* follows is among the feed rows of f.
C28_RecipientsAsRead ==
    /\ [](\A p \in Procs : pc[p] = "fan_out" =>
            /\ loc[p].todo \cup Attempted(p) = loc[p].followerIDs
            /\ loc[p].todo \cap Attempted(p) = {}
            /\ loc[p].todo # {})
    /\ [](\A f \in Users : \A q \in posts :
            follows[<<f, q.author_id>>] > 0 => q.id \in {r.id : r \in FeedRows(f)})
    /\ [][/\ \A p \in Procs :
              /\ (pc[p] = "notify_new_post" /\ pc'[p] # "notify_new_post")
                   => loc'[p].followerIDs = {f \in Users : follows[<<f, loc[p].u>>] > 0}
              /\ (pc[p] = "fan_out" /\ last'.proc # p) => loc'[p] = loc[p] /\ pc'[p] = pc[p]
              /\ (pc[p] = "fan_out" /\ last'.proc = p)
                   => LET f == loc'[p].att[Len(loc'[p].att)]
                      IN /\ loc'[p].followerIDs = loc[p].followerIDs
                         /\ f \in loc[p].todo
                         /\ loc'[p].todo = loc[p].todo \ {f}
                         /\ f \in loc'[p].failed => Created = {}
                         /\ f \notin loc'[p].failed =>
                              /\ Cardinality(Created) = 1
                              /\ \A n \in Created : NewPostNotification(n, p, f)
          /\ \A n \in Created : n.type = "new_post" =>
                /\ last'.proc \in Procs
                /\ pc[last'.proc] = "fan_out"
                /\ n.user_id \in loc[last'.proc].followerIDs]_vars

\* the Unfollow of f came between the read and the return: the fan-out has
\* returned, f was in the list read and holds the new_post notification of
\* the post although f no longer follows the author
C28_Witness ==
    /\ CreatePostReturned
    /\ loc[last.proc].failed = {}
    /\ \E f \in loc[last.proc].followerIDs :
         /\ follows[<<f, last.u>>] = 0
         /\ \E n \in notifications :
              n.type = "new_post" /\ n.user_id = f /\ n.entity_id = last.x

\* the Follow of g came between the read and the return: g follows the
\* author and sees the post in the feed, and no notification is stored for g
C28_WitnessLateFollow ==
    /\ CreatePostReturned
    /\ loc[last.proc].failed = {}
    /\ \E g \in Users \ loc[last.proc].followerIDs :
         /\ g # last.u
         /\ follows[<<g, last.u>>] > 0
         /\ last.x \in {r.id : r \in FeedRows(g)}
         /\ \A n \in notifications : ~(n.type = "new_post" /\ n.user_id = g)

\* the notifications of user u
OwnedBy(u) == {n \in notifications : n.user_id = u}

\* C29: a MarkAsRead, MarkAllAsRead or DeleteNotification step on behalf of
\* user u leaves every notification of every other user as it was, and adds
\* none; and any step that leaves the notifications of a user a (and the
\* posts their enrichment looks up) as they were leaves GetUnreadCount(a) and
\* every page of GetUserNotifications(a) as they were, whatever it does to
\* the notifications of other users.
C29_OwnNotificationsOnly ==
    [][/\ (last'.op \in {"MarkAsRead", "MarkAllAsRead", "DeleteNotification"})
          => /\ {n \in notifications' : n.user_id # last'.u}
                  = {n \in notifications : n.user_id # last'.u}
             /\ {n.id : n \in notifications'} \subseteq {n.id : n \in notifications}
       /\ \A a \in Users :
            (OwnedBy(a)' = OwnedBy(a) /\ posts' = posts)
            => /\ GetUnreadCount(a)' = GetUnreadCount(a)
               /\ \A limit \in 0..MaxRequests, offset \in 0..MaxRequests :
                    GetUserNotifications(a, limit, offset)'
                      = GetUserNotifications(a, limit, offset)]_vars

\* MarkAsRead has marked a notification of its caller while another user
\* holds an unread notification, which is still unread and still counted
C29_Witness ==
    /\ last.op = "MarkAsRead" /\ last.out = "ok"
    /\ \E n \in OwnedBy(last.u) : n.id = last.x /\ n.read_at = nreq
    /\ \E v \in Users \ {last.u} :
         /\ GetUnreadCount(v) = 1
         /\ Len(GetUserNotifications(v, MaxRequests, 0).rows) = 1

\* the ids of the RecentLimit most recently created notifications of user u
Recent(u) ==
    LET own == {n.id : n \in OwnedBy(u)}
    IN {i \in own : Cardinality({j \in own : j > i}) < RecentLimit}

\* the ids of the unread ones among them
RecentUnread(u) ==
    LET recent == Recent(u)
    IN {n.id : n \in {n \in notifications : n.id \in recent /\ n.read_at = NULL}}

\* C30: GetNotifications with unread_only=true answers with notifications
\* of the caller whose read_at is null and that are among the caller's
\* RecentLimit most recently created ones, newest first: the row at place i
\* has exactly offset + i - 1 newer unread ones among those RecentLimit, and
\* there are min(limit, unread recent ones left after the offset) rows. So
\* an unread notification older than the RecentLimit newest is in no
\* response, and the list is never longer than GetUnreadCount.
C30_UnreadOnlyListing ==
    (last.op = "GetNotifications" /\ last.unread_only) =>
        LET rows == last.rows
            cand == RecentUnread(last.u)
            left == IF Cardinality(cand) > last.offset
                    THEN Cardinality(cand) - last.offset ELSE 0
        IN /\ last.out = "ok"
           /\ last.limit = IF last.limitParam \in 1..MaxLimit
                           THEN last.limitParam ELSE DefaultLimit
           /\ Len(rows) = IF last.limit < left THEN last.limit ELSE left
           /\ \A i \in DOMAIN rows :
                /\ rows[i].read_at = NULL
                /\ rows[i].id \in cand
                /\ Cardinality({j \in cand : j > rows[i].id}) = last.offset + i - 1
           /\ \A n \in OwnedBy(last.u) :
                n.id \notin Recent(last.u) => \A i \in DOMAIN rows : rows[i].id # n.id
           /\ Len(rows) <= GetUnreadCount(last.u)

\* the caller has an unread notification older than the RecentLimit newest:
\* the whole unread listing (offset 0, default limit) is non-empty and
\* shorter than GetUnreadCount
C30_Witness ==
    /\ last.op = "GetNotifications" /\ last.unread_only
    /\ last.offset = 0 /\ last.limit = DefaultLimit
    /\ \E n \in OwnedBy(last.u) : n.id \notin Recent(last.u) /\ n.read_at = NULL
    /\ Len(last.rows) > 0
    /\ Len(last.rows) < GetUnreadCount(last.u)

====
